---------------------------- MODULE Spec2Model ----------------------------
(***************************************************************************)
(* jsHash (src/jsHash.h) and its ChaCha20 keystream generator              *)
(* (src/ChaChaEncryptor.h) as state machines.                              *)
(*                                                                         *)
(* Values.  A uint64_t is a tuple of 8 bytes and a uint32_t a tuple of 4   *)
(* bytes, least significant byte first, so that every operation keeps the  *)
(* width of the source (TLC's integers are too narrow to hold either).     *)
(* All arithmetic below is the arithmetic of the source, byte by byte.     *)
(* Memory is a sequence of bytes; a word read from or written to memory    *)
(* through a cast goes through FromMem / ByteOf, which apply the byte      *)
(* order of the machine (the variable bigEndian).                          *)
(*                                                                         *)
(* size_t.  The one width that is scaled is that of size_t: it is SizeBits *)
(* wide (64 in the usual build), and the source's shift of the byte        *)
(* counter by 32 is a shift by SizeBits \div 2, so that the two halves of  *)
(* the counter and its overflow are within reach of a finite run.          *)
(***************************************************************************)
EXTENDS Integers, Sequences, FiniteSets

(***************************************************************************)
(* Bounds of the model.                                                    *)
(***************************************************************************)
SizeBits == 7          \* width of size_t in bits
MaxCalls == 2          \* insert calls made on one jsHash
CipherCalls == 2       \* calls made on one ChaCha20
MaxFeeds == 1          \* times a result of mix is fed back as an operand

SizeMod  == 2 ^ SizeBits
HalfBits == SizeBits \div 2

(***************************************************************************)
(* Bytes and words.                                                        *)
(***************************************************************************)
\* a ^ b on 4-bit values, as a table: XorNib[a + 1][b + 1]
XorNib ==
  << << 0,  1,  2,  3,  4,  5,  6,  7,  8,  9, 10, 11, 12, 13, 14, 15>>,
     << 1,  0,  3,  2,  5,  4,  7,  6,  9,  8, 11, 10, 13, 12, 15, 14>>,
     << 2,  3,  0,  1,  6,  7,  4,  5, 10, 11,  8,  9, 14, 15, 12, 13>>,
     << 3,  2,  1,  0,  7,  6,  5,  4, 11, 10,  9,  8, 15, 14, 13, 12>>,
     << 4,  5,  6,  7,  0,  1,  2,  3, 12, 13, 14, 15,  8,  9, 10, 11>>,
     << 5,  4,  7,  6,  1,  0,  3,  2, 13, 12, 15, 14,  9,  8, 11, 10>>,
     << 6,  7,  4,  5,  2,  3,  0,  1, 14, 15, 12, 13, 10, 11,  8,  9>>,
     << 7,  6,  5,  4,  3,  2,  1,  0, 15, 14, 13, 12, 11, 10,  9,  8>>,
     << 8,  9, 10, 11, 12, 13, 14, 15,  0,  1,  2,  3,  4,  5,  6,  7>>,
     << 9,  8, 11, 10, 13, 12, 15, 14,  1,  0,  3,  2,  5,  4,  7,  6>>,
     <<10, 11,  8,  9, 14, 15, 12, 13,  2,  3,  0,  1,  6,  7,  4,  5>>,
     <<11, 10,  9,  8, 15, 14, 13, 12,  3,  2,  1,  0,  7,  6,  5,  4>>,
     <<12, 13, 14, 15,  8,  9, 10, 11,  4,  5,  6,  7,  0,  1,  2,  3>>,
     <<13, 12, 15, 14,  9,  8, 11, 10,  5,  4,  7,  6,  1,  0,  3,  2>>,
     <<14, 15, 12, 13, 10, 11,  8,  9,  6,  7,  4,  5,  2,  3,  0,  1>>,
     <<15, 14, 13, 12, 11, 10,  9,  8,  7,  6,  5,  4,  3,  2,  1,  0>> >>

\* a ^ b on bytes, nibble by nibble
Xor8(a, b) ==
  16 * XorNib[(a \div 16) + 1][(b \div 16) + 1] + XorNib[(a % 16) + 1][(b % 16) + 1]

\* x ^ y on uint32_t
Xor32(x, y) ==
  <<Xor8(x[1], y[1]), Xor8(x[2], y[2]), Xor8(x[3], y[3]), Xor8(x[4], y[4])>>

\* bytes i, i + 1, ... of x + y, the carry into byte i being c
RECURSIVE AddCarry(_, _, _, _)
AddCarry(x, y, i, c) ==
  IF i > Len(x) THEN << >>
  ELSE <<(x[i] + y[i] + c) % 256>> \o AddCarry(x, y, i + 1, (x[i] + y[i] + c) \div 256)

\* x + y on uint32_t (modulo 2^32)
Add32(x, y) == AddCarry(x, y, 1, 0)

\* byte i (from 0) of the n-byte word x rotated left by 8*q + s bits
RotByte(x, n, i, q, s) ==
  ((x[((i - q + n) % n) + 1] * (2 ^ s)) % 256)
    + (x[((i - q - 1 + 2 * n) % n) + 1] \div (2 ^ (8 - s)))

\* std::rotl on uint32_t
Rotl32(x, r) ==
  <<RotByte(x, 4, 0, r \div 8, r % 8), RotByte(x, 4, 1, r \div 8, r % 8),
    RotByte(x, 4, 2, r \div 8, r % 8), RotByte(x, 4, 3, r \div 8, r % 8)>>

\* the uint32_t of value n, for 0 <= n < 2^31
U32(n) ==
  <<n % 256, (n \div 256) % 256, (n \div 65536) % 256, (n \div 16777216) % 256>>

\* x ^ y on uint64_t
Xor64(x, y) ==
  <<Xor8(x[1], y[1]), Xor8(x[2], y[2]), Xor8(x[3], y[3]), Xor8(x[4], y[4]),
    Xor8(x[5], y[5]), Xor8(x[6], y[6]), Xor8(x[7], y[7]), Xor8(x[8], y[8])>>

\* x + y on uint64_t (modulo 2^64)
Add64(x, y) == AddCarry(x, y, 1, 0)

\* rotl on uint64_t
Rotl64(x, r) ==
  <<RotByte(x, 8, 0, r \div 8, r % 8), RotByte(x, 8, 1, r \div 8, r % 8),
    RotByte(x, 8, 2, r \div 8, r % 8), RotByte(x, 8, 3, r \div 8, r % 8),
    RotByte(x, 8, 4, r \div 8, r % 8), RotByte(x, 8, 5, r \div 8, r % 8),
    RotByte(x, 8, 6, r \div 8, r % 8), RotByte(x, 8, 7, r \div 8, r % 8)>>

\* byte i (from 0) of the uint64_t x shifted right by 8*q + s bits
ShrByte(x, i, q, s) ==
  (IF i + q <= 7 THEN x[i + q + 1] \div (2 ^ s) ELSE 0)
    + (IF i + q + 1 <= 7 THEN (x[i + q + 2] * (2 ^ (8 - s))) % 256 ELSE 0)

\* x >> r on uint64_t
Shr64(x, r) ==
  <<ShrByte(x, 0, r \div 8, r % 8), ShrByte(x, 1, r \div 8, r % 8),
    ShrByte(x, 2, r \div 8, r % 8), ShrByte(x, 3, r \div 8, r % 8),
    ShrByte(x, 4, r \div 8, r % 8), ShrByte(x, 5, r \div 8, r % 8),
    ShrByte(x, 6, r \div 8, r % 8), ShrByte(x, 7, r \div 8, r % 8)>>

\* column k (from 0) of the schoolbook product of a and b on bytes: the sum of
\* the a[i] * b[k - i], from byte i (from 0) of a on
RECURSIVE Column(_, _, _, _)
Column(a, b, k, i) ==
  IF i > 7 THEN 0
  ELSE (IF k - i >= 0 /\ k - i <= 7 THEN a[i + 1] * b[k - i + 1] ELSE 0)
         + Column(a, b, k, i + 1)

\* bytes k, k + 1, ... (from 0) of the product, t being column k with the
\* carry of the columns below it
RECURSIVE MulCarry(_, _, _, _)
MulCarry(a, b, k, t) ==
  IF k = 15 THEN <<t % 256>>
  ELSE <<t % 256>> \o MulCarry(a, b, k + 1, Column(a, b, k + 1, 0) + (t \div 256))

\* the full 128-bit product of two uint64_t, as 16 bytes
Mul128(a, b) == MulCarry(a, b, 0, Column(a, b, 0, 0))

\* a * b on uint64_t (modulo 2^64)
Mul64(a, b) == SubSeq(Mul128(a, b), 1, 8)

\* the uint64_t of value n, for 0 <= n < 2^31
U64(n) ==
  <<n % 256, (n \div 256) % 256, (n \div 65536) % 256, (n \div 16777216) % 256,
    0, 0, 0, 0>>

\* the bytes of s in reverse order
RECURSIVE Reverse(_)
Reverse(s) == IF Len(s) = 0 THEN << >> ELSE Append(Reverse(Tail(s)), Head(s))

\* a word read from memory: a cast from a byte pointer to a word pointer sees
\* the machine's byte order
FromMem(bytes, be) == IF be THEN Reverse(bytes) ELSE bytes

\* in[i] + ks[i] for every i: the keystream added instead of XORed
AddBytes(in, ks) == [i \in 1..Len(in) |-> (in[i] + ks[i]) % 256]

\* in[i] ^ ks[i] for every i: the inner loop of xor_stream
XorBytes(in, ks) == [i \in 1..Len(in) |-> Xor8(in[i], ks[i])]

Min(a, b) == IF a < b THEN a ELSE b

\* the value of the last of the steps of a computation.  TLC evaluates the
\* elements of a tuple from first to last, so that a long computation proceeds
\* step by step, as the program does, each step from the results before it.
InOrder(steps) == steps[Len(steps)]


(***************************************************************************)
(* ChaCha20 (src/ChaChaEncryptor.h).  A cipher is a record                 *)
(*   state          16 uint32_t                                            *)
(*   keystream      16 uint32_t                                            *)
(*   keystream_pos  the read cursor                                        *)
(*   block_counter  a uint64_t                                             *)
(***************************************************************************)
sigma == << <<101, 120, 112,  97>>,      \* 0x61707865
            <<110, 100,  32,  51>>,      \* 0x3320646e
            << 50,  45,  98, 121>>,      \* 0x79622d32
            <<116, 101,  32, 107>> >>    \* 0x6b206574

Zero32 == <<0, 0, 0, 0>>

\* the constructor with the layout of RFC 8439: a 32-bit counter in word 12 and
\* the three nonce words in words 13 to 15
ChaCha20Rfc(key, nonce, initial_counter) ==
  [ state |-> sigma \o key
                \o << SubSeq(initial_counter, 1, 4), nonce[1], nonce[2], nonce[3] >>,
    keystream |-> <<Zero32, Zero32, Zero32, Zero32, Zero32, Zero32, Zero32, Zero32,
                    Zero32, Zero32, Zero32, Zero32, Zero32, Zero32, Zero32, Zero32>>,
    keystream_pos |-> 64,
    block_counter |-> initial_counter ]

\* the constructor: nothing is generated, the cursor is at 64
ChaCha20(key, nonce, initial_counter) ==
  [ state |-> sigma \o key
                \o << SubSeq(initial_counter, 1, 4), SubSeq(initial_counter, 5, 8),
                      nonce[1], nonce[2] >>,
    keystream |-> <<Zero32, Zero32, Zero32, Zero32, Zero32, Zero32, Zero32, Zero32,
                    Zero32, Zero32, Zero32, Zero32, Zero32, Zero32, Zero32, Zero32>>,
    keystream_pos |-> 64,
    block_counter |-> initial_counter ]

\* z ^= x; z = std::rotl(z, r), x being the sum just computed
XorRotl(x, z, r) == <<x, Rotl32(Xor32(z, x), r)>>

\* x += y; z ^= x; z = std::rotl(z, r): the new x and the new z
AddXorRotl(x, y, z, r) == XorRotl(Add32(x, y), z, r)

\* w = <<a, b, c, d>> with a and d replaced by the pair p
StoreAD(w, p) == <<p[1], w[2], w[3], p[2]>>

\* a += b; d ^= a; d = std::rotl(d, r) on w = <<a, b, c, d>>
StepAD(w, r) == StoreAD(w, AddXorRotl(w[1], w[2], w[4], r))

\* w = <<a, b, c, d>> with c and b replaced by the pair p
StoreCB(w, p) == <<w[1], p[2], p[1], w[4]>>

\* c += d; b ^= c; b = std::rotl(b, r) on w = <<a, b, c, d>>
StepCB(w, r) == StoreCB(w, AddXorRotl(w[3], w[4], w[2], r))

\* the four lines of QR on w = <<a, b, c, d>>
QRWords(w) == StepCB(StepAD(StepCB(StepAD(w, 16), 12), 8), 7)

\* the words a, b, c, d (numbered from 0) of x become w
QRStore(x, a, b, c, d, w) ==
  [x EXCEPT ![a + 1] = w[1], ![b + 1] = w[2], ![c + 1] = w[3], ![d + 1] = w[4]]

\* QR(input[a], input[b], input[c], input[d])
QR(x, a, b, c, d) ==
  QRStore(x, a, b, c, d, QRWords(<<x[a + 1], x[b + 1], x[c + 1], x[d + 1]>>))

\* the words the eight QR lines of the loop body work on, in order
QRLines == << <<0, 4,  8, 12>>, <<1, 5,  9, 13>>, <<2, 6, 10, 14>>, <<3, 7, 11, 15>>,
              <<0, 5, 10, 15>>, <<1, 6, 11, 12>>, <<2, 7,  8, 13>>, <<3, 4,  9, 14>> >>

\* x after QR line k of the loop body
QRLine(x, k) ==
  InOrder(<<x, QR(x, QRLines[k][1], QRLines[k][2], QRLines[k][3], QRLines[k][4])>>)

\* x after the first k QR lines of one pass of the loop
RECURSIVE DoubleRound(_, _)
DoubleRound(x, k) == IF k = 0 THEN x ELSE QRLine(DoubleRound(x, k - 1), k)

\* x after one pass of the loop: 4 column and 4 diagonal rounds
Pass(x) == InOrder(<<x, DoubleRound(x, 8)>>)

\* the loop of refill_keystream: x after r passes
RECURSIVE Rounds(_, _)
Rounds(x, r) == IF r = 0 THEN x ELSE Pass(Rounds(x, r - 1))

\* for (int i = 0; i < 16; ++i) keystream[i] = input[i] + state[i]
AddState(input, state) ==
  SubSeq([i \in 1..16 |-> Add32(input[i], state[i])], 1, 16)

One64 == <<1, 0, 0, 0, 0, 0, 0, 0>>

\* refill_keystream permuting the state itself instead of a copy of it: the
\* permuted words are what the persistent state is left with
RefilledLeak(c, input, ctr) ==
  InOrder(<<input,
            [ state |-> [input EXCEPT ![13] = SubSeq(ctr, 1, 4),
                                      ![14] = SubSeq(ctr, 5, 8)],
              keystream |-> AddState(input, c.state),
              keystream_pos |-> 0,
              block_counter |-> ctr ]>>)

\* refill_keystream without ++block_counter: the counter stays where it was
RefilledNoStep(c, input, ctr) ==
  InOrder(<<input,
            [ state |-> [c.state EXCEPT ![13] = SubSeq(c.block_counter, 1, 4),
                                        ![14] = SubSeq(c.block_counter, 5, 8)],
              keystream |-> AddState(input, c.state),
              keystream_pos |-> 0,
              block_counter |-> c.block_counter ]>>)

\* what refill_keystream leaves, input being the working copy after the loop
\* and ctr the incremented block counter
Refilled(c, input, ctr) ==
  InOrder(<<input,
            [ state |-> [c.state EXCEPT ![13] = SubSeq(ctr, 1, 4),
                                        ![14] = SubSeq(ctr, 5, 8)],
              keystream |-> AddState(input, c.state),
              keystream_pos |-> 0,
              block_counter |-> ctr ]>>)

refill_keystream(c) == Refilled(c, Rounds(c.state, 10), Add64(c.block_counter, One64))

\* byte i (from 0) of an array of w-byte words seen through a uint8_t pointer
ByteOf(words, w, i, be) ==
  IF be THEN words[(i \div w) + 1][w - (i % w)] ELSE words[(i \div w) + 1][(i % w) + 1]

\* the keystream array seen through the uint8_t pointer
KeystreamBytes(ks, be) == SubSeq([i \in 1..64 |-> ByteOf(ks, 4, i - 1, be)], 1, 64)

\* ks = keystream, the cursor left out: the take bytes at the start of the block
KsAtStart(c, take, be) == SubSeq(KeystreamBytes(c.keystream, be), 1, take)

\* ks = keystream + keystream_pos, the take bytes at the cursor
KsAt(c, take, be) ==
  SubSeq(KeystreamBytes(c.keystream, be), c.keystream_pos + 1, c.keystream_pos + take)

\* r with the bytes o written before it and n more blocks generated
Chained(o, r, n) ==
  InOrder(<<o, r, [c |-> r.c, out |-> o \o r.out, refills |-> r.refills + n]>>)

\* xor_stream on the cipher c and the bytes in: the cipher after the call, the
\* bytes written to out, and the number of blocks the call generated
RECURSIVE xor_stream(_, _, _)

\* one pass of the loop without keystream_pos += take: the cursor stays where
\* it was
TakeNoAdvance(c, in, be, take, n) ==
  Chained(XorBytes(SubSeq(in, 1, take), KsAt(c, take, be)),
          xor_stream(c, SubSeq(in, take + 1, Len(in)), be),
          n)

\* one pass of the loop of xor_stream after its refill, n being the number of
\* blocks the pass generated
Take(c, in, be, take, n) ==
  Chained(XorBytes(SubSeq(in, 1, take), KsAt(c, take, be)),
          xor_stream([c EXCEPT !.keystream_pos = @ + take],
                     SubSeq(in, take + 1, Len(in)), be),
          n)

LoopBody(c, in, be, n) ==
  InOrder(<<c, Take(c, in, be, Min(Len(in), 64 - c.keystream_pos), n)>>)

xor_stream(c, in, be) ==
  IF Len(in) = 0 THEN [c |-> c, out |-> << >>, refills |-> 0]
  ELSE IF c.keystream_pos >= 64
       THEN LoopBody(refill_keystream(c), in, be, 1)
       ELSE LoopBody(c, in, be, 0)

\* crypt: xor_stream in place
crypt(c, data, be) == xor_stream(c, data, be)

\* an array of uint64_t seen through a uint8_t pointer, and back
WordsToMem(words, be) ==
  SubSeq([i \in 1..(8 * Len(words)) |-> ByteOf(words, 8, i - 1, be)], 1, 8 * Len(words))

MemToWords(bytes, be) ==
  SubSeq([k \in 1..(Len(bytes) \div 8) |-> FromMem(SubSeq(bytes, 8 * k - 7, 8 * k), be)],
         1, Len(bytes) \div 8)

\* the result of crypt on the bytes of a block, as a block
AsBlock(r, be) == [c |-> r.c, out |-> MemToWords(r.out, be), refills |-> r.refills]

\* encrypt_block: crypt on the 64 bytes of a copy of the 8-word block
encrypt_block(c, block, be) == AsBlock(crypt(c, WordsToMem(block, be), be), be)

(***************************************************************************)
(* jsHash (src/jsHash.h).  A hash object is a record                       *)
(*   v             the four lanes, uint64_t each                           *)
(*   nbytes        the byte counter, a size_t                              *)
(*   buffer        32 bytes, of which the first buffer_index are the tail  *)
(*   buffer_index  the fill level                                          *)
(***************************************************************************)
MIX  == <<185, 229, 228,  28, 109,  71,  88, 191>>     \* 0xbf58476d1ce4e5b9
PHI  == << 21, 124,  74, 127, 185, 121,  55, 158>>     \* 0x9e3779b97f4a7c15
PHI2 == << 67,   1, 187,   7,  46,  39,  98, 108>>     \* 0x6c62272e07bb0143

\* the multipliers of SplitMix64
SplitMixM1 == <<185, 229, 228,  28, 109,  71,  88, 191>>   \* 0xbf58476d1ce4e5b9
SplitMixM2 == <<235,  17,  49,  19, 187,  73, 208, 148>>   \* 0x94d049bb133111eb

\* the salt words of hash_secure
Salt6 == <<148,  10,  34,  39, 183, 193, 124,  81>>    \* 0x517cc1b727220a94
Salt7 == <<115, 119, 168, 235, 176, 131,  58, 133>>    \* 0x853a83b0eba87773

\* a ^ b ^ lo ^ hi, p being the 128-bit product
Fold(a, b, p) == Xor64(Xor64(Xor64(a, b), SubSeq(p, 1, 8)), SubSeq(p, 9, 16))

\* mix: a ^ b ^ lo ^ hi of the 128-bit product a * (b ^ MIX)
mix(a, b) == Fold(a, b, Mul128(a, Xor64(b, MIX)))

\* a & b and a | b on bytes, from the sum and the XOR of a and b
And8(a, b) == (a + b - Xor8(a, b)) \div 2

Or8(a, b) == (a + b + Xor8(a, b)) \div 2

\* x & y on uint64_t
And64(x, y) ==
  <<And8(x[1], y[1]), And8(x[2], y[2]), And8(x[3], y[3]), And8(x[4], y[4]),
    And8(x[5], y[5]), And8(x[6], y[6]), And8(x[7], y[7]), And8(x[8], y[8])>>

\* x | y on uint64_t
Or64(x, y) ==
  <<Or8(x[1], y[1]), Or8(x[2], y[2]), Or8(x[3], y[3]), Or8(x[4], y[4]),
    Or8(x[5], y[5]), Or8(x[6], y[6]), Or8(x[7], y[7]), Or8(x[8], y[8])>>

\* byte i (from 0) of the uint64_t x shifted left by 8*q + s bits
ShlByte(x, i, q, s) ==
  (IF i - q >= 0 THEN (x[i - q + 1] * (2 ^ s)) % 256 ELSE 0)
    + (IF i - q - 1 >= 0 THEN x[i - q] \div (2 ^ (8 - s)) ELSE 0)

\* x << r on uint64_t
Shl64(x, r) ==
  <<ShlByte(x, 0, r \div 8, r % 8), ShlByte(x, 1, r \div 8, r % 8),
    ShlByte(x, 2, r \div 8, r % 8), ShlByte(x, 3, r \div 8, r % 8),
    ShlByte(x, 4, r \div 8, r % 8), ShlByte(x, 5, r \div 8, r % 8),
    ShlByte(x, 6, r \div 8, r % 8), ShlByte(x, 7, r \div 8, r % 8)>>

Mask32 == <<255, 255, 255, 255, 0, 0, 0, 0>>          \* 0xFFFFFFFFULL

\* the lambdas of mul64_portable
LO(x) == And64(x, Mask32)

HI(x) == Shr64(x, 32)

\* p00, p01, p10, p11
Partials(a, b) ==
  <<Mul64(LO(a), LO(b)), Mul64(LO(a), HI(b)), Mul64(HI(a), LO(b)), Mul64(HI(a), HI(b))>>

\* x = HI(p00) + LO(p01) + LO(p10)
MidX(p) == Add64(Add64(HI(p[1]), LO(p[2])), LO(p[3]))

\* y with the carry of x left out: HI(p01) + HI(p10) + LO(p11)
MidYNoCarry(p, x) == Add64(Add64(HI(p[2]), HI(p[3])), LO(p[4]))

\* y = HI(p01) + HI(p10) + LO(p11) + HI(x)
MidY(p, x) == Add64(Add64(Add64(HI(p[2]), HI(p[3])), LO(p[4])), HI(x))

\* the u128 returned: { LO(p00) | (x << 32), y + (HI(p11) << 32) }
Assemble(p, x) ==
  [ lo |-> Or64(LO(p[1]), Shl64(x, 32)),
    hi |-> Add64(MidY(p, x), Shl64(HI(p[4]), 32)) ]

WithX(p) == InOrder(<<p, Assemble(p, MidX(p))>>)

\* mul64_portable: the 128-bit product from four 32 x 32 bit products
mul64_portable(a, b) == WithX(Partials(a, b))

\* a ^ b ^ p.lo ^ p.hi
FoldPortable(a, b, p) == Xor64(Xor64(Xor64(a, b), p.lo), p.hi)

\* mix as the build without a 128-bit multiplication has it
mixPortable(a, b) == FoldPortable(a, b, mul64_portable(a, Xor64(b, MIX)))

\* z ^ (z >> k)
XorShift(z, k) == Xor64(z, Shr64(z, k))

\* the value SplitMix64::operator() returns, s being the state it has advanced to
Scramble(s) ==
  XorShift(Mul64(XorShift(Mul64(XorShift(s, 30), SplitMixM1), 27), SplitMixM2), 31)

\* the generator at state s with the value drawn on reaching it
Drawn(s) == InOrder(<<s, [state |-> s, value |-> Scramble(s)]>>)

\* SplitMix64::operator(): the generator's new state and the value returned
SplitMix64(state) == Drawn(Add64(state, PHI))

Zero32Bytes == <<0, 0, 0, 0, 0, 0, 0, 0, 0, 0, 0, 0, 0, 0, 0, 0,
                 0, 0, 0, 0, 0, 0, 0, 0, 0, 0, 0, 0, 0, 0, 0, 0>>

\* n successive draws of the generator at the given state
RECURSIVE Draws(_, _)

\* the draw g followed by n more
DrawMore(g, n) == <<g.value>> \o Draws(g.state, n)

Draws(state, n) == IF n = 0 THEN << >> ELSE DrawMore(SplitMix64(state), n - 1)

\* jsHash(key): the four lanes are four draws of SplitMix64(key)
jsHash(key) ==
  [ v |-> Draws(key, 4),
    nbytes |-> 0,
    buffer |-> Zero32Bytes,
    buffer_index |-> 0 ]

\* the copy constructor
jsHashCopy(other) ==
  [ v |-> other.v,
    nbytes |-> other.nbytes,
    buffer |-> other.buffer,
    buffer_index |-> other.buffer_index ]

\* process_32bytes with a slip in one index: lane 1 is computed from lane 0
process_32bytesCross(h, p, be) ==
  [h EXCEPT !.v = << mix(h.v[1], FromMem(SubSeq(p,  1,  8), be)),
                     mix(h.v[1], FromMem(SubSeq(p,  9, 16), be)),
                     mix(h.v[3], FromMem(SubSeq(p, 17, 24), be)),
                     mix(h.v[4], FromMem(SubSeq(p, 25, 32), be)) >>]

\* process_32bytes: word i of the 32 bytes at p is folded into lane i
process_32bytes(h, p, be) ==
  [h EXCEPT !.v = << mix(h.v[1], FromMem(SubSeq(p,  1,  8), be)),
                     mix(h.v[2], FromMem(SubSeq(p,  9, 16), be)),
                     mix(h.v[3], FromMem(SubSeq(p, 17, 24), be)),
                     mix(h.v[4], FromMem(SubSeq(p, 25, 32), be)) >>]

process_buffer(h, be) ==
  IF h.buffer_index < 32 THEN h
  ELSE [process_32bytes(h, h.buffer, be) EXCEPT !.buffer_index = 0]

\* memcpy(buffer + at, src, Len(src))
CopyInto(buffer, at, src) ==
  SubSeq(buffer, 1, at) \o src \o SubSeq(buffer, at + Len(src) + 1, 32)

\* the top-up step without its test: a buffer that has become full stays full
ProcessIfFullNever(h, be) == h

\* if (buffer_index == 32) process_buffer()
ProcessIfFull(h, be) == IF h.buffer_index = 32 THEN process_buffer(h, be) ELSE h

\* the top-up step without ptr += take; remaining -= take: the bytes copied
\* into the buffer are still to be consumed
TopUpTakeNoAdvance(h, x, be, take) ==
  [ h |-> ProcessIfFull([h EXCEPT !.buffer = CopyInto(h.buffer, h.buffer_index,
                                                       SubSeq(x, 1, take)),
                                  !.buffer_index = @ + take], be),
    rest |-> x ]

\* the body of the top-up step of insert for a given take
TopUpTake(h, x, be, take) ==
  [ h |-> ProcessIfFull([h EXCEPT !.buffer = CopyInto(h.buffer, h.buffer_index,
                                                       SubSeq(x, 1, take)),
                                  !.buffer_index = @ + take], be),
    rest |-> SubSeq(x, take + 1, Len(x)) ]

\* the top-up step of insert: the hash after it and the bytes not yet consumed
TopUp(h, x, be) ==
  IF h.buffer_index > 0
  THEN TopUpTake(h, x, be, Min(32 - h.buffer_index, Len(x)))
  ELSE [h |-> h, rest |-> x]

\* the fast path of insert: whole blocks are absorbed straight from the input
RECURSIVE FastPath(_, _, _)
FastPath(h, x, be) ==
  IF Len(x) >= 32
  THEN FastPath(process_32bytes(h, SubSeq(x, 1, 32), be), SubSeq(x, 33, Len(x)), be)
  ELSE [h |-> h, rest |-> x]

\* the tail step of insert
TailStep(h, x) ==
  IF Len(x) > 0
  THEN [h EXCEPT !.buffer = CopyInto(h.buffer, 0, x), !.buffer_index = Len(x)]
  ELSE h

\* the test written against zero: an unsigned counter is never below it, so the
\* wrapped counter goes unnoticed
OverflowedNever(nbytes, size) == nbytes < 0

\* the test of insert for the byte counter having wrapped: nbytes < size
Overflowed(nbytes, size) == nbytes < size

\* nbytes += size and the test that follows it
Counted(h, size) ==
  [ h |-> [h EXCEPT !.nbytes = (@ + size) % SizeMod],
    fatal |-> Overflowed((h.nbytes + size) % SizeMod, size) ]

\* the fast path and the tail step on what the top-up step t left
AfterTopUp(t, be) == InOrder(<<t, FastPath(t.h, t.rest, be)>>)

AfterFastPath(f) == InOrder(<<f, TailStep(f.h, f.rest)>>)

\* the tail step with its test left out: buffer_index = remaining in any case
TailAlways(f) ==
  [f.h EXCEPT !.buffer = CopyInto(@, 0, f.rest), !.buffer_index = Len(f.rest)]

\* insert without the return on size == 0 and without the test of the tail step
insertAlways(h, x, be) ==
  Counted(TailAlways(AfterTopUp(TopUp(h, x, be), be)), Len(x))

\* insert(x, size) with size = Len(x): the hash after the call, and whether the
\* call ended in exit(EXIT_FAILURE)
insert(h, x, be) ==
  IF Len(x) = 0 THEN [h |-> h, fatal |-> FALSE]
  ELSE Counted(AfterFastPath(AfterTopUp(TopUp(h, x, be), be)), Len(x))

\* the absorption of the tail with the memset left out: the bytes of the buffer
\* past the tail are absorbed as they are
PadAndProcessStale(temp, be) ==
  IF temp.buffer_index > 0
  THEN process_buffer([temp EXCEPT !.buffer_index = 32], be)
  ELSE temp

\* the finalizations leaving the tail out: the copy is used as it is
PadAndProcessSkip(temp, be) == temp

\* the zero padding and absorption of the tail that both finalizations apply
\* to their copy
PadAndProcess(temp, be) ==
  IF temp.buffer_index > 0
  THEN process_buffer(
         [temp EXCEPT !.buffer = SubSeq(temp.buffer, 1, temp.buffer_index)
                                   \o SubSeq(Zero32Bytes, 1, 32 - temp.buffer_index),
                      !.buffer_index = 32], be)
  ELSE temp

\* temp.nbytes >> 32, the shift being by half the width of size_t
HighHalf(nbytes) == nbytes \div (2 ^ HalfBits)

\* steps 2 and 3 of hash256: the lanes after a = mix(a, lo); b = mix(b, hi)
\* and the seasoning of c and d
InjectAndSeason(v, lo, hi) ==
  << mix(v[1], lo), mix(v[2], hi), mix(v[3], PHI), mix(v[4], PHI2) >>

\* x ^= t; y ^= rotl(t, k) on words i and j of s
CrossStore(s, i, j, k, t) ==
  InOrder(<<t, [s EXCEPT ![i] = Xor64(@, t), ![j] = Xor64(@, Rotl64(t, k))]>>)

\* one line of step 4 of hash256: t = mix(x, y); x ^= t; y ^= rotl(t, k)
CrossMix(s, i, j, k) == InOrder(<<s, CrossStore(s, i, j, k, mix(s[i], s[j]))>>)

\* step 4 of hash256: the cross-channel avalanche
Avalanche(s) ==
  CrossMix(CrossMix(CrossMix(CrossMix(s, 1, 2, 11), 3, 4, 23), 1, 4, 31), 2, 3, 43)

\* steps 1 to 4 of hash256 on the padded and processed copy
Lanes256(temp) ==
  InOrder(<<temp, Avalanche(InjectAndSeason(temp.v, U64(temp.nbytes),
                                            U64(HighHalf(temp.nbytes))))>>)

\* hash256 padding and processing the object itself instead of a copy of it
hash256InPlace(this, be) ==
  [this |-> PadAndProcess(this, be), digest |-> Lanes256(PadAndProcess(this, be))]

\* hash256: the object after the call and the four words returned
hash256(this, be) ==
  [this |-> this, digest |-> Lanes256(PadAndProcess(jsHashCopy(this), be))]

\* { h256[0] ^ h256[1], h256[2] ^ h256[3] }
Fold128(r) ==
  [this |-> r.this,
   digest |-> <<Xor64(r.digest[1], r.digest[2]), Xor64(r.digest[3], r.digest[4])>>]

hash128(this, be) == Fold128(hash256(this, be))

\* h256[0] ^ h256[1] ^ h256[2] ^ h256[3]
Fold64(r) ==
  [this |-> r.this,
   digest |-> <<Xor64(Xor64(Xor64(r.digest[1], r.digest[2]), r.digest[3]),
                      r.digest[4])>>]

hash64(this, be) == Fold64(hash256(this, be))

\* the 8-word block that hash_secure encrypts
SecureBlock(h) ==
  <<h.v[1], h.v[2], h.v[3], h.v[4],
    U64(h.nbytes), U64(HighHalf(h.nbytes)), Salt6, Salt7>>

\* step 4 of hash_secure: the first N words of the ciphertext
Truncate(this, N, ciphertext) ==
  InOrder(<<ciphertext, [this |-> this, digest |-> SubSeq(ciphertext, 1, N)]>>)

\* hash_secure starting its cipher at the byte counter instead of at 1: the
\* keystream block used depends on the length of the data
hash_secureCounted(this, N, key, nonce, be) ==
  Truncate(this, N,
           encrypt_block(ChaCha20(key, nonce, U64(this.nbytes)),
                         SecureBlock(PadAndProcess(jsHashCopy(this), be)), be).out)

\* hash_secure<N>(key, nonce): the object after the call and the N words returned
hash_secure(this, N, key, nonce, be) ==
  Truncate(this, N,
           encrypt_block(ChaCha20(key, nonce, One64),
                         SecureBlock(PadAndProcess(jsHashCopy(this), be)), be).out)

(***************************************************************************)
(* The inputs the model draws from.                                        *)
(***************************************************************************)
\* the len bytes b, b+1, b+2, ...
Ramp(b, len) == SubSeq([i \in 1..len |-> (b + i - 1) % 256], 1, len)

Seeds      == {U64(0), U64(200)}
ShortLens  == {0, 1}
FirstBytes == {1, 2}
LongLens   == {31, 32, 96}

\* the arguments of insert: nothing, the single bytes 1 and 2, and ramps of
\* less than a block, of one block and of three blocks
Inputs == {Ramp(b, len) : b \in FirstBytes, len \in ShortLens}
            \cup {Ramp(3, len) : len \in LongLens}

Key1   == <<U32(1), U32(2), U32(3), U32(4), U32(5), U32(6), U32(7), U32(8)>>
Nonce0 == <<Zero32, Zero32, Zero32>>            \* the default nonce
Nonce1 == <<U32(9), U32(10), U32(11)>>
Keys    == {Key1}
Nonces  == {Nonce0, Nonce1}
SecureN == {2, 8}

\* an initial counter whose increment carries into the high word of the counter
CarryCounter == <<255, 255, 255, 255, 0, 0, 0, 0>>

\* the largest initial counter: its increment wraps to 0
WrapCounter == <<255, 255, 255, 255, 255, 255, 255, 255>>

\* the (nonce, initial counter) pairs a ChaCha20 is constructed with
Setups == {<<Nonce0, One64>>, <<Nonce1, CarryCounter>>, <<Nonce0, WrapCounter>>}

\* the lengths passed to crypt: nothing, less than a block, a block, and more
\* than two blocks
CryptLens == {0, 1, 63, 64, 130}

\* a nonce that differs from n in word 2 only
TwinNonce(n) == [n EXCEPT ![3] = Add32(@, U32(1))]

(***************************************************************************)
(* State.                                                                  *)
(*   bigEndian  the byte order of the machine                              *)
(*   seed       the key the jsHash was constructed with                    *)
(*   h          the jsHash object                                          *)
(*   chunks     the inputs of the insert calls made so far, in order       *)
(*   last       the last call made on h, with what it returned             *)
(*   fatal      insert has ended the process                               *)
(*   resumed    insert has been called after a finalization                *)
(*   ckey, cnonce, cinit   the arguments the ChaCha20 was constructed with *)
(*   cipher     the ChaCha20 object                                        *)
(*   twin       a ChaCha20 constructed with the same key and counter and a *)
(*              nonce that differs in word 2 only, given the same calls    *)
(*   ccall      the last call made on cipher, with what it returned        *)
(*   sent, recv the bytes passed to and returned by cipher so far          *)
(*   plain      recv after a second ChaCha20(ckey, cnonce, cinit) has      *)
(*              decrypted it                                               *)
(*   ma, mb     the operands of the portable multiplication                *)
(*   mcall      the last call made on them, with what it returned          *)
(***************************************************************************)
VARIABLES bigEndian, seed, h, chunks, last, fatal, resumed,
          ckey, cnonce, cinit, cipher, twin, ccall, sent, recv, plain,
          ma, mb, mcall

hvars == <<seed, h, chunks, last, fatal, resumed>>
cvars == <<ckey, cnonce, cinit, cipher, twin, ccall, sent, recv, plain>>
mvars == <<ma, mb, mcall>>
vars  == <<bigEndian, seed, h, chunks, last, fatal, resumed,
           ckey, cnonce, cinit, cipher, twin, ccall, sent, recv, plain,
           ma, mb, mcall>>

NoCall == [op |-> "construct", N |-> 0, key |-> Key1, nonce |-> Nonce0,
           digest |-> << >>, twin |-> << >>]

\* the calls that finalize
Finalizations == {"hash256", "hash128", "hash64", "hash_secure"}

\* the record of a freshly constructed cipher c: no call has been made on it
Constructed(c) ==
  [op |-> "construct", in |-> << >>, out |-> << >>, out2 |-> << >>,
   refills |-> 0, entry |-> c, n |-> 0]

\* the record of operands on which nothing has been called
NoMul == [op |-> "none", p |-> [lo |-> U64(0), hi |-> U64(0)], mixed |-> U64(0),
          n |-> 0]

\* no multiplication is under way
MulIdle == ma = U64(0) /\ mb = U64(0) /\ mcall = NoMul

\* no cipher is in use
CipherIdle ==
  /\ ckey = Key1 /\ cnonce = Nonce0 /\ cinit = One64
  /\ cipher = ChaCha20(Key1, Nonce0, One64)
  /\ twin = ChaCha20(Key1, Nonce0, One64)
  /\ ccall = Constructed(ChaCha20(Key1, Nonce0, One64))
  /\ sent = << >> /\ recv = << >> /\ plain = << >>

Init ==
  /\ bigEndian \in BOOLEAN
  /\ seed \in Seeds
  /\ h = jsHash(seed)
  /\ chunks = << >>
  /\ last = NoCall
  /\ fatal = FALSE
  /\ resumed = FALSE
  /\ CipherIdle
  /\ MulIdle

\* h.insert(x, Len(x))
Insert ==
  /\ ~fatal
  /\ Len(chunks) < MaxCalls
  /\ \E x \in Inputs : \E r \in {insert(h, x, bigEndian)} :
           /\ h' = r.h
           /\ fatal' = r.fatal
           /\ chunks' = Append(chunks, x)
           /\ last' = [NoCall EXCEPT !.op = "insert"]
  /\ resumed' = (resumed \/ last.op \in Finalizations)
  /\ UNCHANGED <<bigEndian, seed>>
  /\ UNCHANGED cvars
  /\ UNCHANGED mvars

Hash256 ==
  /\ ~fatal
  /\ \E r \in {hash256(h, bigEndian)} :
         /\ h' = r.this
         /\ last' = [NoCall EXCEPT !.op = "hash256", !.digest = r.digest]
  /\ UNCHANGED <<bigEndian, seed, chunks, fatal, resumed>>
  /\ UNCHANGED cvars
  /\ UNCHANGED mvars

Hash128 ==
  /\ ~fatal
  /\ \E r \in {hash128(h, bigEndian)} :
         /\ h' = r.this
         /\ last' = [NoCall EXCEPT !.op = "hash128", !.digest = r.digest]
  /\ UNCHANGED <<bigEndian, seed, chunks, fatal, resumed>>
  /\ UNCHANGED cvars
  /\ UNCHANGED mvars

Hash64 ==
  /\ ~fatal
  /\ \E r \in {hash64(h, bigEndian)} :
         /\ h' = r.this
         /\ last' = [NoCall EXCEPT !.op = "hash64", !.digest = r.digest]
  /\ UNCHANGED <<bigEndian, seed, chunks, fatal, resumed>>
  /\ UNCHANGED cvars
  /\ UNCHANGED mvars

HashSecure ==
  /\ ~fatal
  /\ \E N \in SecureN, key \in Keys, nonce \in Nonces :
       \E r \in {hash_secure(h, N, key, nonce, bigEndian)} :
           /\ h' = r.this
           /\ last' = [NoCall EXCEPT !.op = "hash_secure", !.N = N, !.key = key,
                                      !.nonce = nonce, !.digest = r.digest]
  /\ UNCHANGED <<bigEndian, seed, chunks, fatal, resumed>>
  /\ UNCHANGED cvars
  /\ UNCHANGED mvars

Next == Insert \/ Hash256 \/ Hash128 \/ Hash64 \/ HashSecure

Spec == Init /\ [][Next]_vars

(***************************************************************************)
(* The cipher on its own: a ChaCha20 and its twin are given the same       *)
(* calls, a second ChaCha20 constructed like the first decrypts what the   *)
(* first returned, and hash_secure is called on one jsHash with the        *)
(* cipher's key and with both nonces.                                      *)
(***************************************************************************)
CipherInit ==
  /\ bigEndian \in BOOLEAN
  /\ seed = U64(200)
  /\ chunks = <<Ramp(3, 33)>>
  /\ h = insert(jsHash(U64(200)), Ramp(3, 33), bigEndian).h
  /\ last = [NoCall EXCEPT !.op = "insert"]
  /\ fatal = FALSE
  /\ resumed = FALSE
  /\ ckey \in Keys
  /\ \E s \in Setups : cnonce = s[1] /\ cinit = s[2]
  /\ cipher = ChaCha20(ckey, cnonce, cinit)
  /\ twin = ChaCha20(ckey, TwinNonce(cnonce), cinit)
  /\ ccall = Constructed(cipher)
  /\ sent = << >> /\ recv = << >> /\ plain = << >>
  /\ MulIdle

\* cipher.crypt(data, len), and the same call on the twin
Crypt ==
  /\ ccall.n < CipherCalls
  /\ \E len \in CryptLens : \E data \in {Ramp(Len(sent) + 1, len)} :
       \E r \in {crypt(cipher, data, bigEndian)}, r2 \in {crypt(twin, data, bigEndian)} :
           /\ cipher' = r.c
           /\ twin' = r2.c
           /\ ccall' = [op |-> "crypt", in |-> data, out |-> r.out, out2 |-> r2.out,
                        refills |-> r.refills, entry |-> cipher, n |-> ccall.n + 1]
           /\ sent' = sent \o data
           /\ recv' = recv \o r.out
  /\ UNCHANGED <<bigEndian, ckey, cnonce, cinit, plain>>
  /\ UNCHANGED hvars
  /\ UNCHANGED mvars

\* cipher.encrypt_block(block), and the same call on the twin
EncryptBlock ==
  /\ ccall.n < CipherCalls
  /\ \E block \in {MemToWords(Ramp(Len(sent) + 1, 64), FALSE)} :
       \E r \in {encrypt_block(cipher, block, bigEndian)},
          r2 \in {encrypt_block(twin, block, bigEndian)} :
           /\ cipher' = r.c
           /\ twin' = r2.c
           /\ ccall' = [op |-> "encrypt_block", in |-> block, out |-> r.out,
                        out2 |-> r2.out, refills |-> r.refills, entry |-> cipher,
                        n |-> ccall.n + 1]
           /\ sent' = sent \o WordsToMem(block, bigEndian)
           /\ recv' = recv \o WordsToMem(r.out, bigEndian)
  /\ UNCHANGED <<bigEndian, ckey, cnonce, cinit, plain>>
  /\ UNCHANGED hvars
  /\ UNCHANGED mvars

\* a second ChaCha20(ckey, cnonce, cinit) is constructed and its crypt applied
\* to all that the first has returned
Decrypt ==
  /\ Len(plain) # Len(recv)
  /\ plain' = crypt(ChaCha20(ckey, cnonce, cinit), recv, bigEndian).out
  /\ UNCHANGED <<bigEndian, ckey, cnonce, cinit, cipher, twin, ccall, sent, recv>>
  /\ UNCHANGED hvars
  /\ UNCHANGED mvars

\* h.hash_secure<N>(ckey, cnonce), and the same call with the twin's nonce
SecureTwice ==
  /\ last.op # "hash_secure"
  /\ \E N \in SecureN :
       \E r \in {hash_secure(h, N, ckey, cnonce, bigEndian)},
          r2 \in {hash_secure(h, N, ckey, TwinNonce(cnonce), bigEndian)} :
           /\ h' = r.this
           /\ last' = [NoCall EXCEPT !.op = "hash_secure", !.N = N, !.key = ckey,
                                      !.nonce = cnonce, !.digest = r.digest,
                                      !.twin = r2.digest]
  /\ UNCHANGED <<bigEndian, seed, chunks, fatal, resumed>>
  /\ UNCHANGED cvars
  /\ UNCHANGED mvars

CipherNext == Crypt \/ EncryptBlock \/ Decrypt \/ SecureTwice

CipherSpec == CipherInit /\ [][CipherNext]_vars

(***************************************************************************)
(* The multiplication on its own: mul64_portable and the mix built on it   *)
(* are applied to operands at the edges of the 32-bit halves, and a result *)
(* of mix is fed back as an operand.                                       *)
(***************************************************************************)
AllOnes == <<255, 255, 255, 255, 255, 255, 255, 255>>

\* 0, 1, 2^32 - 1, 2^32, 2^32 + 1, 2^63 - 1, 2^64 - 2^32, 2^64 - 1 and two
\* constants of the source
Operands == { U64(0), One64, Mask32, <<0, 0, 0, 0, 1, 0, 0, 0>>,
              <<1, 0, 0, 0, 1, 0, 0, 0>>, <<255, 255, 255, 255, 255, 255, 255, 127>>,
              <<0, 0, 0, 0, 255, 255, 255, 255>>, AllOnes, MIX, PHI }

MulInit ==
  /\ bigEndian = FALSE
  /\ seed = U64(0)
  /\ h = jsHash(seed)
  /\ chunks = << >>
  /\ last = NoCall
  /\ fatal = FALSE
  /\ resumed = FALSE
  /\ CipherIdle
  /\ ma \in Operands
  /\ mb \in Operands
  /\ mcall = NoMul

\* mul64_portable(ma, mb)
Multiply ==
  /\ mcall.op # "mul64_portable"
  /\ mcall' = [mcall EXCEPT !.op = "mul64_portable", !.p = mul64_portable(ma, mb),
                            !.mixed = U64(0)]
  /\ UNCHANGED <<bigEndian, ma, mb>>
  /\ UNCHANGED hvars
  /\ UNCHANGED cvars

\* mix(ma, mb) in the build that falls back on mul64_portable
MixPortable ==
  /\ mcall.op # "mix"
  /\ mcall' = [mcall EXCEPT !.op = "mix", !.p = mul64_portable(ma, Xor64(mb, MIX)),
                            !.mixed = mixPortable(ma, mb)]
  /\ UNCHANGED <<bigEndian, ma, mb>>
  /\ UNCHANGED hvars
  /\ UNCHANGED cvars

\* the value mix returned becomes the first operand, as in lane = mix(lane, word)
Feed ==
  /\ mcall.op = "mix"
  /\ mcall.n < MaxFeeds
  /\ \E word \in Operands :
        /\ ma' = mcall.mixed
        /\ mb' = word
  /\ mcall' = [NoMul EXCEPT !.n = mcall.n + 1]
  /\ UNCHANGED bigEndian
  /\ UNCHANGED hvars
  /\ UNCHANGED cvars

MulNext == Multiply \/ MixPortable \/ Feed

MulSpec == MulInit /\ [][MulNext]_vars

(***************************************************************************)
(* What the properties below compare the state with.                       *)
(***************************************************************************)
\* the bytes of all the chunks, in order
RECURSIVE Flat(_)
Flat(cs) == IF Len(cs) = 0 THEN << >> ELSE cs[1] \o Flat(Tail(cs))

\* the number of bytes of all the chunks
RECURSIVE Total(_)
Total(cs) == IF Len(cs) = 0 THEN 0 ELSE Len(cs[1]) + Total(Tail(cs))

\* the chunks that are not empty, in order
NonEmpty(cs) == SelectSeq(cs, LAMBDA c : Len(c) > 0)

\* a jsHash constructed with key s and given the chunks cs by successive
\* insert calls, with no other call in between
RECURSIVE Replay(_, _, _)
Replay(s, cs, be) ==
  IF Len(cs) = 0 THEN jsHash(s)
  ELSE insert(Replay(s, SubSeq(cs, 1, Len(cs) - 1), be), cs[Len(cs)], be).h

\* what the finalization recorded in l returns on the jsHash g
Digest(l, g, be) ==
  CASE l.op = "hash256"     -> hash256(g, be).digest
    [] l.op = "hash128"     -> hash128(g, be).digest
    [] l.op = "hash64"      -> hash64(g, be).digest
    [] l.op = "hash_secure" -> hash_secure(g, l.N, l.key, l.nonce, be).digest

\* the first buffer_index bytes of the buffer: the tail not yet absorbed
TailOf(g) == SubSeq(g.buffer, 1, g.buffer_index)

\* g and k have the same lanes, byte counter and tail
SameHash(g, k) ==
  /\ g.v = k.v
  /\ g.nbytes = k.nbytes
  /\ g.buffer_index = k.buffer_index
  /\ TailOf(g) = TailOf(k)

(***************************************************************************)
(* C1.  Chunk invariance: as long as the process lives, the jsHash that    *)
(* was given the chunks by successive insert calls has the lanes, the byte *)
(* counter and the tail of a jsHash constructed with the same seed and     *)
(* given all their bytes in one insert call, and every digest taken from   *)
(* it is the digest the same finalization returns on that other jsHash.    *)
(***************************************************************************)
C1_ChunkInvariance ==
  ~fatal =>
    \E one \in {insert(jsHash(seed), Flat(chunks), bigEndian).h} :
      /\ SameHash(h, one)
      /\ last.op \in Finalizations => last.digest = Digest(last, one, bigEndian)

\* two chunks, the second completing a block the first began and leaving a
\* tail, have been inserted and a digest taken
C1_Witness ==
  /\ Len(chunks) = 2
  /\ Len(chunks[1]) = 1
  /\ Len(chunks[2]) = 32
  /\ h.buffer_index = 1
  /\ last.op \in Finalizations

(***************************************************************************)
(* C2.  Finalization is non-destructive: whatever finalizations have been  *)
(* called, and wherever between the insert calls, the jsHash is the jsHash *)
(* that the insert calls alone produce (lanes, byte counter, all 32 bytes  *)
(* of the buffer, fill level), and the digest a finalization returned is   *)
(* the digest it returns when no finalization came before it.              *)
(***************************************************************************)
C2_FinalizeKeepsState ==
  \E fresh \in {Replay(seed, chunks, bigEndian)} :
    /\ h = fresh
    /\ last.op \in Finalizations => last.digest = Digest(last, fresh, bigEndian)

\* insert, a finalization, insert and again a finalization, the last on a
\* jsHash with a tail to pad
C2_Witness ==
  /\ resumed
  /\ last.op \in Finalizations
  /\ h.buffer_index > 0

(***************************************************************************)
(* C3.  A zero-length insert is a no-op: the jsHash is the jsHash that the *)
(* insert calls of non-zero length alone produce, it has not ended the     *)
(* process unless they have, and the digest a finalization returned is the *)
(* digest of that jsHash.                                                  *)
(***************************************************************************)
C3_ZeroLengthNoOp ==
  \E bare \in {Replay(seed, NonEmpty(chunks), bigEndian)} :
    /\ ~fatal => h = bare
    /\ fatal => Len(chunks[Len(chunks)]) > 0
    /\ last.op \in Finalizations => last.digest = Digest(last, bare, bigEndian)

\* a zero-length insert was made on a jsHash with a tail and a digest taken
C3_Witness ==
  /\ Len(chunks) = 2
  /\ Len(chunks[1]) > 0
  /\ Len(chunks[2]) = 0
  /\ h.buffer_index > 0
  /\ last.op \in Finalizations

(***************************************************************************)
(* C4.  Standard finalization injects the length as two halves: the four   *)
(* words hash256 returns are the avalanche of the lanes after lane a was   *)
(* mixed with the low half of the byte counter alone and lane b with its   *)
(* high half.                                                              *)
(***************************************************************************)
\* the low half of the byte counter: nbytes & 0xFFFFFFFF at the full width
LowHalf(nbytes) == nbytes % (2 ^ HalfBits)

\* hash256 as the claim has it, on the padded and processed copy
Lanes256Halves(temp) ==
  Avalanche(InjectAndSeason(temp.v, U64(LowHalf(temp.nbytes)),
                            U64(HighHalf(temp.nbytes))))

C4_LengthInTwoHalves ==
  last.op = "hash256" =>
    last.digest = Lanes256Halves(PadAndProcess(jsHashCopy(h), bigEndian))

(***************************************************************************)
(* C5.  The block that secure finalization encrypts: hash_secure<N>        *)
(* returns the first N words of the block made of the four raw lanes of    *)
(* the padded and processed copy, the low half of the byte counter, its    *)
(* high half and the two salts, XORed with the first keystream block of a  *)
(* ChaCha20 constructed from the key and the nonce with initial counter 1. *)
(***************************************************************************)
\* the block as the claim has it
SecureBlockHalves(g) ==
  <<g.v[1], g.v[2], g.v[3], g.v[4],
    U64(LowHalf(g.nbytes)), U64(HighHalf(g.nbytes)), Salt6, Salt7>>

\* the first keystream block of a ChaCha20 constructed from key and nonce with
\* initial counter 1, as bytes
FirstBlock(key, nonce, be) ==
  KeystreamBytes(refill_keystream(ChaCha20(key, nonce, One64)).keystream, be)

\* the block XORed with the keystream bytes ks, as words
BlockXor(block, ks, be) == MemToWords(XorBytes(WordsToMem(block, be), ks), be)

C5_SecureBlockLayout ==
  last.op = "hash_secure" =>
    last.digest =
      SubSeq(BlockXor(SecureBlockHalves(PadAndProcess(jsHashCopy(h), bigEndian)),
                      FirstBlock(last.key, last.nonce, bigEndian), bigEndian),
             1, last.N)

(***************************************************************************)
(* C6.  The byte counter does not wrap silently: insert has ended the      *)
(* process exactly when the bytes inserted no longer fit the counter, no   *)
(* call is made after that, and as long as the process lives the counter   *)
(* is the true total of the bytes inserted.                                *)
(***************************************************************************)
C6_CounterNeverWraps ==
  /\ fatal <=> Total(chunks) >= SizeMod
  /\ fatal => last.op = "insert"
  /\ ~fatal => h.nbytes = Total(chunks)

\* an insert has carried the byte counter past its maximum
C6_Witness ==
  /\ fatal
  /\ Total(chunks) >= SizeMod
  /\ h.nbytes < Total(chunks)

(***************************************************************************)
(* C7.  encrypt_block continues the keystream where the cursor stands: it  *)
(* generates exactly one block, and returns its input XORed with the bytes *)
(* of the block generated before the call from the cursor on, followed by  *)
(* the bytes of the block it generates up to the cursor (all 64 bytes of   *)
(* that block when the cursor stood at 64); the cursor is where it was.    *)
(***************************************************************************)
\* the 64 keystream bytes from the cursor of c on: the rest of the block c
\* holds, then the start of the block c generates next
NextBytes(c, be) ==
  SubSeq(KeystreamBytes(c.keystream, be), c.keystream_pos + 1, 64)
    \o SubSeq(KeystreamBytes(refill_keystream(c).keystream, be), 1, c.keystream_pos)

C7_BlockContinuesStream ==
  ccall.op = "encrypt_block" =>
    /\ ccall.refills = 1
    /\ ccall.entry.keystream_pos \in 1..64
    /\ ccall.out = BlockXor(ccall.in, NextBytes(ccall.entry, bigEndian), bigEndian)
    /\ cipher.keystream = refill_keystream(ccall.entry).keystream
    /\ cipher.keystream_pos = ccall.entry.keystream_pos

\* encrypt_block was called with the cursor strictly inside a block
C7_Witness ==
  /\ ccall.op = "encrypt_block"
  /\ ccall.entry.keystream_pos \in 1..63

\* the claim as stated: all 64 bytes applied come from the one block the call
\* generates
C7_OneFreshBlock ==
  ccall.op = "encrypt_block" =>
    /\ ccall.refills = 1
    /\ ccall.out =
         BlockXor(ccall.in,
                  KeystreamBytes(refill_keystream(ccall.entry).keystream, bigEndian),
                  bigEndian)

(***************************************************************************)
(* C8.  Round trip: once a second ChaCha20 constructed with the same key,  *)
(* nonce and initial counter has applied crypt to all that the first has   *)
(* returned, what it returns is what the first was given.                  *)
(***************************************************************************)
C8_RoundTrip == Len(plain) = Len(recv) => plain = sent

\* a message of more than two blocks and not a whole number of blocks was
\* encrypted in one call and decrypted
C8_Witness ==
  /\ ccall.n = 1
  /\ ccall.op = "crypt"
  /\ Len(sent) > 128
  /\ Len(sent) % 64 # 0
  /\ Len(plain) = Len(recv)
  /\ recv # sent

(***************************************************************************)
(* C9.  The third nonce word has no effect: a ChaCha20 and its twin, whose *)
(* nonce differs in word 2 only, are equal objects after the same calls    *)
(* and have returned the same bytes, and hash_secure returns the same      *)
(* digest with either nonce.                                               *)
(***************************************************************************)
C9_ThirdNonceWordIgnored ==
  /\ cipher = twin
  /\ ccall.out = ccall.out2
  /\ last.op = "hash_secure" => last.digest = last.twin

\* both ciphers have been through two calls that generated blocks, and
\* hash_secure has returned with both nonces
C9_Witness ==
  /\ ccall.n = 2
  /\ cipher.block_counter # cinit
  /\ Len(ccall.out) > 0
  /\ last.op = "hash_secure"
  /\ TwinNonce(cnonce) # cnonce

(***************************************************************************)
(* C10.  Non-commutativity: the 64-bit digest of two different single      *)
(* bytes inserted one after the other differs from the digest of the same  *)
(* two bytes inserted in the other order.                                  *)
(***************************************************************************)
C10_OrderMatters ==
  ( /\ last.op = "hash64"
    /\ Len(chunks) = 2
    /\ Len(chunks[1]) = 1
    /\ Len(chunks[2]) = 1
    /\ chunks[1] # chunks[2] )
  => last.digest #
       hash64(Replay(seed, <<chunks[2], chunks[1]>>, bigEndian), bigEndian).digest

\* seed 200, the byte 1 then the byte 2, and hash64 taken
C10_Witness ==
  /\ seed = U64(200)
  /\ chunks = << <<1>>, <<2>> >>
  /\ last.op = "hash64"

(***************************************************************************)
(* C11.  The portable multiplication is the native one: mul64_portable     *)
(* returns the low and the high 64 bits of the full 128-bit product of its *)
(* operands, and mix built on it returns what mix built on the 128-bit     *)
(* multiplication returns.                                                 *)
(***************************************************************************)
C11_PortableIsNative ==
  /\ mcall.op = "mul64_portable" =>
        /\ mcall.p.lo = SubSeq(Mul128(ma, mb), 1, 8)
        /\ mcall.p.hi = SubSeq(Mul128(ma, mb), 9, 16)
  /\ mcall.op = "mix" => mcall.mixed = mix(ma, mb)

\* the portable mix was applied to a value that mix returned, and the sum of
\* the middle partial products carried into the high word
C11_Witness ==
  /\ mcall.op = "mix"
  /\ mcall.n = 1
  /\ HI(MidX(Partials(ma, Xor64(mb, MIX)))) # U64(0)

(***************************************************************************)
(* C12.  Between insert calls the fill level of the buffer is below 32: it *)
(* is in 0..31 in every reachable state, and it is 0 whenever the bytes    *)
(* inserted make up whole blocks, the buffer that the top-up step filled   *)
(* having been absorbed and reset within the call.                         *)
(***************************************************************************)
C12_BufferBelow32 ==
  /\ h.buffer_index \in 0..31
  /\ Total(chunks) % 32 = 0 => h.buffer_index = 0
  /\ Total(chunks) % 32 # 0 => Len(TailOf(h)) = Total(chunks) % 32

\* the second insert filled the buffer to exactly 32 bytes in its top-up step:
\* the buffer is empty again and the lanes have absorbed a block
C12_Witness ==
  /\ Len(chunks) = 2
  /\ Len(chunks[1]) \in 1..31
  /\ Len(chunks[1]) + Len(chunks[2]) = 32
  /\ h.buffer_index = 0
  /\ h.v # jsHash(seed).v

(***************************************************************************)
(* C13.  The keystream is generated lazily, one block per step of the      *)
(* counter: construction generates nothing and leaves the counter at its   *)
(* initial value, a call of length 0 generates nothing and leaves the      *)
(* cipher as it was, every call generates just the blocks that the bytes   *)
(* passed so far need beyond those generated before it, and after n bytes  *)
(* in all the counter is the initial counter plus ceil(n / 64) modulo 2^64 *)
(* and the cursor is at the end of the last byte used, within 0..64.       *)
(***************************************************************************)
\* ceil(n / 64)
BlocksFor(n) == (n + 63) \div 64

\* the number of bytes the call recorded in c was given
InLen(c) == IF c.op = "encrypt_block" THEN 64 ELSE Len(c.in)

\* where the cursor stands once n bytes in all have been used
CursorAfter(n) == IF n = 0 THEN 64 ELSE ((n - 1) % 64) + 1

C13_LazyOnePerBlock ==
  /\ ccall.op = "construct" =>
        /\ cipher.block_counter = cinit
        /\ cipher.keystream_pos = 64
        /\ \A i \in 1..16 : cipher.keystream[i] = Zero32
  /\ (ccall.op = "crypt" /\ Len(ccall.in) = 0) =>
        /\ ccall.refills = 0
        /\ cipher = ccall.entry
  /\ ccall.refills = BlocksFor(Len(sent)) - BlocksFor(Len(sent) - InLen(ccall))
  /\ cipher.block_counter = Add64(cinit, U64(BlocksFor(Len(sent))))
  /\ cipher.keystream_pos = CursorAfter(Len(sent))
  /\ cipher.keystream_pos \in 0..64

\* a second call began inside a block, went past its end, and stopped inside
\* a later block
C13_Witness ==
  /\ ccall.n = 2
  /\ ccall.entry.keystream_pos \in 1..63
  /\ ccall.refills >= 2
  /\ cipher.keystream_pos \in 1..63

(***************************************************************************)
(* C14.  The state a block is computed from: once k blocks have been       *)
(* generated, the persistent state is the constants, the key, the two      *)
(* halves of the 64-bit value initial counter + k in words 12 and 13, and  *)
(* nonce words 0 and 1, and the block the cipher holds, the one generated  *)
(* last, is the permutation of that state with the counter                 *)
(* initial counter + (k - 1), plus that state word by word.                *)
(***************************************************************************)
\* the 16 words with the counter words encoding the initial counter + k
StateAt(k) ==
  sigma \o ckey
    \o << SubSeq(Add64(cinit, U64(k)), 1, 4), SubSeq(Add64(cinit, U64(k)), 5, 8),
          cnonce[1], cnonce[2] >>

\* the keystream block computed from the state s
BlockOf(s) == AddState(Rounds(s, 10), s)

C14_CounterInState ==
  \E k \in {BlocksFor(Len(sent))} :
    /\ cipher.state = StateAt(k)
    /\ k > 0 => cipher.keystream = BlockOf(StateAt(k - 1))

\* at least two blocks have been generated from an initial counter whose low
\* word wrapped on the way: the carry is in word 13
C14_Witness ==
  /\ cinit = CarryCounter
  /\ BlocksFor(Len(sent)) >= 2
  /\ cipher.state[13] = U32(BlocksFor(Len(sent)) - 1)
  /\ cipher.state[14] = U32(1)

(***************************************************************************)
(* C15.  Lane independence: lane i of the jsHash is the i-th initial lane  *)
(* of its seed folded by mix with word i of each absorbed block in turn,   *)
(* and nothing else; it is the lane i of a jsHash with the same seed that  *)
(* was given, in one insert, data agreeing with the inserted bytes in word *)
(* i of every block and differing from them in every other byte.  This     *)
(* holds after finalizations as well: they combine lanes in their copy.    *)
(***************************************************************************)
\* lane v after word i (from 1) of each whole 32-byte block of data was mixed
\* into it
RECURSIVE LaneFold(_, _, _, _)
LaneFold(v, data, i, be) ==
  IF Len(data) < 32 THEN v
  ELSE LaneFold(mix(v, FromMem(SubSeq(data, 8 * i - 7, 8 * i), be)),
                SubSeq(data, 33, Len(data)), i, be)

\* data with every byte outside word i (from 1) of its block complemented
Elsewhere(data, i) ==
  SubSeq([k \in 1..Len(data) |->
            IF ((k - 1) % 32) \div 8 = i - 1 THEN data[k] ELSE 255 - data[k]],
         1, Len(data))

C15_LaneIndependence ==
  \E fresh \in {jsHash(seed)}, data \in {Flat(chunks)} :
    \A i \in 1..4 :
      /\ h.v[i] = LaneFold(fresh.v[i], data, i, bigEndian)
      /\ h.v[i] = insert(fresh, Elsewhere(data, i), bigEndian).h.v[i]

\* blocks have been absorbed by two insert calls and a digest taken
C15_Witness ==
  /\ ~fatal
  /\ Len(chunks) = 2
  /\ Len(chunks[1]) >= 32
  /\ Len(chunks[2]) >= 32
  /\ last.op \in Finalizations

(***************************************************************************)
(* C16.  Streaming encryption is chunk-invariant: byte i (from 0) of all   *)
(* the bytes passed to one cipher, whatever the calls they were passed in, *)
(* was XORed with byte i mod 64 of keystream block i div 64, the block     *)
(* computed from the state with the counter initial counter + i div 64;    *)
(* what the calls returned is what one crypt call on all the bytes returns *)
(* on a cipher constructed with the same arguments, and the two ciphers    *)
(* end up equal.                                                           *)
(***************************************************************************)
\* the bytes of block j (from 0) of the keystream of the cipher constructed
\* with ckey, cnonce and cinit
BlockBytes(j) == KeystreamBytes(BlockOf(StateAt(j)), bigEndian)

C16_StreamChunkInvariant ==
  /\ Len(recv) = Len(sent)
  /\ \A j \in 0..(BlocksFor(Len(sent)) - 1) : \E ks \in {BlockBytes(j)} :
        \A b \in 1..Min(64, Len(sent) - 64 * j) :
          recv[64 * j + b] = Xor8(sent[64 * j + b], ks[b])
  /\ \E one \in {crypt(ChaCha20(ckey, cnonce, cinit), sent, bigEndian)} :
        /\ recv = one.out
        /\ cipher = one.c

\* a message of more than three blocks was encrypted in two calls, the first
\* of which ended inside a block
C16_Witness ==
  /\ ccall.n = 2
  /\ ccall.op = "crypt"
  /\ ccall.entry.keystream_pos = 63
  /\ Len(sent) = 193
  /\ recv # sent

(***************************************************************************)
(* C17.  Every inserted byte is absorbed once or waits in the buffer: as   *)
(* long as the process lives, the byte counter is the number of bytes      *)
(* inserted, the fill level is the counter modulo 32, the first bytes of   *)
(* the buffer up to the fill level are the last bytes inserted, and the    *)
(* lanes are the initial lanes of the seed after absorbing, in order, the  *)
(* first floor(counter / 32) blocks of the inserted bytes.                 *)
(***************************************************************************)
\* g after absorbing the first k 32-byte blocks of data, in order
RECURSIVE Absorbed(_, _, _, _)
Absorbed(g, data, k, be) ==
  IF k = 0 THEN g
  ELSE process_32bytes(Absorbed(g, data, k - 1, be),
                       SubSeq(data, 32 * k - 31, 32 * k), be)

C17_AbsorbedOrWaiting ==
  ~fatal =>
    \E data \in {Flat(chunks)} :
      /\ h.nbytes = Len(data)
      /\ h.buffer_index = h.nbytes % 32
      /\ TailOf(h) = SubSeq(data, Len(data) - h.buffer_index + 1, Len(data))
      /\ h.v = Absorbed(jsHash(seed), data, h.nbytes \div 32, bigEndian).v

\* the second insert completed the waiting block, absorbed two more straight
\* from its argument and left a tail
C17_Witness ==
  /\ ~fatal
  /\ Len(chunks) = 2
  /\ Len(chunks[1]) = 31
  /\ Len(chunks[2]) = 96
  /\ h.nbytes = 127
  /\ h.buffer_index = 31

(***************************************************************************)
(* C18.  The keystream of secure finalization ignores the hash state: the  *)
(* 8 words hash_secure<8> returns are the unencrypted block XORed with the *)
(* first block of a cipher constructed from the key and the nonce alone,   *)
(* so that its XOR with what hash_secure<8> returns, for the same key and  *)
(* nonce, on a jsHash of another seed or of other data is, word by word,   *)
(* the XOR of the two unencrypted blocks, and words 6 and 7 are the same   *)
(* on both.                                                                *)
(***************************************************************************)
\* the block hash_secure encrypts on the jsHash g
PlainBlock(g) == SecureBlock(PadAndProcess(jsHashCopy(g), bigEndian))

\* x ^ y word by word
XorWords(x, y) == SubSeq([w \in 1..Len(x) |-> Xor64(x[w], y[w])], 1, Len(x))

\* hash states to compare with: no data under seed 0, and 31 bytes under
\* seed 200
Others ==
  { jsHash(U64(0)), insert(jsHash(U64(200)), Ramp(3, 31), bigEndian).h }

C18_KeystreamIgnoresInput ==
  (last.op = "hash_secure" /\ last.N = 8) =>
    /\ last.digest = BlockXor(PlainBlock(h),
                              FirstBlock(last.key, last.nonce, bigEndian), bigEndian)
    /\ \A s2 \in Others :
          \E d2 \in {hash_secure(s2, 8, last.key, last.nonce, bigEndian).digest} :
            /\ XorWords(last.digest, d2) = XorWords(PlainBlock(h), PlainBlock(s2))
            /\ last.digest[7] = d2[7]
            /\ last.digest[8] = d2[8]

\* hash_secure<8> has returned on a jsHash that differs from both of the
\* others in its lanes and in its byte counter
C18_Witness ==
  /\ last.op = "hash_secure"
  /\ last.N = 8
  /\ last.nonce = Nonce1
  /\ h.nbytes = 127
  /\ \A s2 \in Others : s2.v # PadAndProcess(jsHashCopy(h), bigEndian).v

=============================================================================
